---- MODULE Spec2Model ----
(***************************************************************************)
(* Model of the polkadot-profit-transformer core:                          *)
(*   - BlockMetadataProcessorService.processTaskMessage / processBlock     *)
(*     (the fencing task-processing protocol over the processing_tasks     *)
(*     row and the total_issuance output row of one block), SpecTask;      *)
(*   - BlocksService.processBlocks (the sync driver under the SyncStatus   *)
(*     mutex), SpecSync.                                                   *)
(***************************************************************************)
EXTENDS Integers, Sequences, FiniteSets, TLC

(***************************************************************************)
(* Bounds of the model.                                                    *)
(***************************************************************************)
\* environment.MAX_ATTEMPTS: a deployment setting, small here
MAX_ATTEMPTS == 2
\* deliveries (calls of processTaskMessage) in one behaviour
MaxDeliveries == 4
\* calls of processBlocks in one behaviour
MaxSyncCalls == 2
\* blocks the finalized head advances by in one behaviour
MaxHeadAdvance == 1

Workers == {"w1", "w2"}
NoWorker == "none"
\* collect_uid values: the stored one is drawn from these, so is each message's
Tokens == {"uidA", "uidB"}

NOT_PROCESSED == "NOT_PROCESSED"
PROCESSED == "PROCESSED"

\* the value readTaskAndLockRow resolves to when no row matches
NoRecord == [exists |-> FALSE, attempts |-> 0, collect_uid |-> "uidA", status |-> NOT_PROCESSED]

VARIABLES
    \* ---- relational store (committed state) ----
    task,          \* the processing_tasks row of (BLOCK_METADATA, blockId)
    outputs,       \* number of committed total_issuance rows of blockId
    rowLock,       \* the transaction holding the row lock of the task row
    \* ---- one processTaskMessage invocation per worker ----
    pc,            \* position of the invocation in the handler
    msg,           \* message.collect_uid
    taskRecord,    \* the row read under the lock
    trxOut,        \* rows inserted inside the open transaction, not yet committed
    trxStatus,     \* status written inside the open transaction, not yet committed
    outcome,       \* which log line ended the invocation
    raised,        \* the promise returned to the caller rejected
    \* ---- history ----
    startAttempts, \* task.attempts when the invocation was called
    deliveries,    \* calls of processTaskMessage so far
    ncalls,        \* calls per worker
    overlapped,    \* some call was made while another invocation was running
    initTask,      \* the task row at the start of the behaviour
    transforms,    \* invocations that went on to processBlock so far
    \* ---- sync driver: SyncStatus, the chain and the checkpoint ----
    locked,          \* SyncStatus.isLocked()
    waiters,         \* callers waiting in SyncStatus.acquire(), oldest first
    chainHead,       \* what polkadotApi.getFinBlockNumber() resolves to
    lastProcessed,   \* what blockRepository.getLastProcessedBlock() resolves to
    \* ---- one processBlocks invocation per caller ----
    ppc,             \* position of the invocation in processBlocks
    startBlockNumber,
    blockNumber,
    lastBlockNumber,
    jobs,            \* heights whose runBlocksWorker promise is not yet resolved
    \* ---- history ----
    chunks,          \* the chunks dispatched by the invocation, in order
    blocked,         \* the invocation was called while the lock was held
    acquired,        \* the invocation got the lock
    syncCalls,       \* calls of processBlocks so far
    released,        \* calls of release() by the invocation
    guard,           \* what checkHistoryDepthAvailableData returned to it
    \* ---- one call of checkHistoryDepthAvailableData(blockNumber) ----
    view,            \* what the chain answers to the reads of the call
    guardResult,     \* "pending", or how the call ended: "true", "false", "throws"
    \* ---- StakingService: the fastq queue of era payouts ----
    pushed,          \* the block of every item given to queue.push, in push order
    epc,             \* per item: "queued", its position in processEraPayout,
                     \* "done" (cb called) or "thrown"
    erasData,        \* items published to the topic _STAKING_ERAS_DATA, in order
    sessionData,     \* items published to the topic _SESSION_DATA, in order
    \* ---- one runBlocksWorker call (block job) per height ----
    attempts,        \* the loop variable of the job
    wpc,             \* position of the job: "for", a step of processBlock, "sleep"
    lastError,       \* the job's lastError is set
    runs,            \* calls of processBlock by the job (history)
    jobResult,       \* what the job returned: "none", "true", "false" (history)
    sentBlockData,   \* calls of kafka.sendBlockData that resolved, per height
    counter,         \* the progress counter
    \* ---- one call of getValidatorsAndNominatorsData ----
    erasStakers,     \* per validator of the era: others of erasStakers (a sequence
                     \* of stakers) and of erasStakersClipped
    payeeRejects,    \* the stakers whose staking.payee read rejects
    nominators,      \* the nominators pushed so far
    validators,      \* the validators pushed so far
    \* ---- one trimAndUpdateToFinalized call per caller ----
    tpc,             \* position of the call in trimAndUpdateToFinalized
    trimStart,       \* its startBlockNumber
    trimResult,      \* the result it returned: "none", "true", "false"
    trimmed          \* the store has executed its trimBlocksFrom (history)

taskVars == <<task, outputs, rowLock, pc, msg, taskRecord, trxOut, trxStatus,
              outcome, raised, startAttempts, deliveries, ncalls, overlapped,
              initTask, transforms>>

syncVars == <<locked, waiters, chainHead, lastProcessed, ppc, startBlockNumber,
              blockNumber, lastBlockNumber, jobs, chunks, blocked, acquired, syncCalls,
              released, guard>>

guardVars == <<view, guardResult>>

queueVars == <<pushed, epc, erasData, sessionData>>

jobVars == <<attempts, wpc, lastError, runs, jobResult, sentBlockData, counter>>

eraVars == <<erasStakers, payeeRejects, nominators, validators>>

trimVars == <<tpc, trimStart, trimResult, trimmed>>

\* the sync driver without the set of jobs in flight
driverVars == <<locked, waiters, chainHead, lastProcessed, ppc, startBlockNumber,
                blockNumber, lastBlockNumber, chunks, blocked, acquired, syncCalls,
                released, guard>>

\* what the actions of one part leave alone
outsideTask == <<syncVars, guardVars, queueVars, jobVars, eraVars, trimVars>>
outsideSync == <<taskVars, guardVars, queueVars, jobVars, eraVars, trimVars>>
outsideGuard == <<taskVars, syncVars, queueVars, jobVars, eraVars, trimVars>>
outsideQueue == <<taskVars, syncVars, guardVars, jobVars, eraVars, trimVars>>
outsideJobs == <<taskVars, guardVars, driverVars, eraVars, trimVars>>
outsideEra == <<taskVars, syncVars, guardVars, queueVars, jobVars, trimVars>>
outsideTrim == <<taskVars, guardVars, queueVars, jobVars, eraVars>>

vars == <<taskVars, syncVars, guardVars, queueVars, jobVars, eraVars, trimVars>>

(***************************************************************************)
(* Init: a task row created by the upstream producer (or none), either     *)
(* not yet processed, or processed by an earlier run of this protocol      *)
(* together with its output row.                                           *)
(***************************************************************************)
InitTaskRows ==
    {NoRecord} \cup
    { [exists |-> TRUE, attempts |-> a, collect_uid |-> u, status |-> s] :
        a \in 0..(MAX_ATTEMPTS + 1), u \in Tokens, s \in {NOT_PROCESSED, PROCESSED} }

TaskStart ==
    /\ task \in InitTaskRows
    /\ outputs = IF task.status = PROCESSED THEN 1 ELSE 0
    /\ rowLock = NoWorker
    /\ pc = [w \in Workers |-> "idle"]
    /\ msg = [w \in Workers |-> "uidA"]
    /\ taskRecord = [w \in Workers |-> NoRecord]
    /\ trxOut = [w \in Workers |-> 0]
    /\ trxStatus = [w \in Workers |-> "none"]
    /\ outcome = [w \in Workers |-> "none"]
    /\ raised = [w \in Workers |-> FALSE]
    /\ startAttempts = [w \in Workers |-> 0]
    /\ deliveries = 0
    /\ ncalls = [w \in Workers |-> 0]
    /\ overlapped = FALSE
    /\ initTask = task
    /\ transforms = 0

(***************************************************************************)
(* processTaskMessage(message)                                             *)
(***************************************************************************)
\* the task delivery source calls processTaskMessage({entity_id, collect_uid})
Deliver(w, uid) ==
    /\ pc[w] \in {"idle", "done"}
    /\ deliveries < MaxDeliveries
    /\ deliveries' = deliveries + 1
    /\ ncalls' = [ncalls EXCEPT ![w] = @ + 1]
    /\ pc' = [pc EXCEPT ![w] = "increaseAttempts"]
    /\ msg' = [msg EXCEPT ![w] = uid]
    /\ taskRecord' = [taskRecord EXCEPT ![w] = NoRecord]
    /\ trxOut' = [trxOut EXCEPT ![w] = 0]
    /\ trxStatus' = [trxStatus EXCEPT ![w] = "none"]
    /\ outcome' = [outcome EXCEPT ![w] = "none"]
    /\ raised' = [raised EXCEPT ![w] = FALSE]
    /\ startAttempts' = [startAttempts EXCEPT ![w] = task.attempts]
    /\ overlapped' = (overlapped \/ \E o \in Workers \ {w} : pc[o] \notin {"idle", "done"})
    /\ UNCHANGED <<task, outputs, rowLock, initTask, transforms, outsideTask>>

(***************************************************************************)
(* TasksRepository and the row lock of the store                           *)
(***************************************************************************)
\* TasksRepository.increaseAttempts: UPDATE ... SET attempts = attempts + 1
\* of the row of (entity, entity_id); no row, no change
TasksRepository_increaseAttempts(t) ==
    IF t.exists THEN [t EXCEPT !.attempts = @ + 1] ELSE t

\* TasksRepository.setTaskRecordAsProcessed: the status written by the UPDATE
TasksRepository_setTaskRecordAsProcessed == PROCESSED

\* no transaction holds the row: an UPDATE or a SELECT ... FOR UPDATE of the
\* row goes on only then
RowLockFree == rowLock = NoWorker

\* mutant: the increment made only for a delivery that passes the token check
IncreaseAttempts_AfterTokenCheck(w) ==
    /\ pc[w] = "increaseAttempts"
    /\ RowLockFree
    /\ task' = IF task.collect_uid = msg[w]
               THEN TasksRepository_increaseAttempts(task) ELSE task
    /\ pc' = [pc EXCEPT ![w] = "readTaskAndLockRow"]
    /\ UNCHANGED <<outputs, rowLock, msg, taskRecord, trxOut, trxStatus, outcome,
                   raised, startAttempts, deliveries, ncalls, overlapped, initTask, transforms, outsideTask>>

\* await this.tasksRepository.increaseAttempts(ENTITY.BLOCK_METADATA, blockId):
\* the first statement of the handler, outside the transaction
IncreaseAttempts(w) ==
    /\ pc[w] = "increaseAttempts"
    /\ RowLockFree
    /\ task' = TasksRepository_increaseAttempts(task)
    /\ pc' = [pc EXCEPT ![w] = "readTaskAndLockRow"]
    /\ UNCHANGED <<outputs, rowLock, msg, taskRecord, trxOut, trxStatus, outcome,
                   raised, startAttempts, deliveries, ncalls, overlapped, initTask, transforms, outsideTask>>

\* knex.transaction(async (trx) => ...) and
\* taskRecord = await tasksRepository.readTaskAndLockRow(..., trx)
ReadTaskAndLockRow(w) ==
    /\ pc[w] = "readTaskAndLockRow"
    /\ RowLockFree
    /\ rowLock' = IF task.exists THEN w ELSE NoWorker
    /\ taskRecord' = [taskRecord EXCEPT ![w] = task]
    /\ pc' = [pc EXCEPT ![w] = "check"]
    /\ UNCHANGED <<task, outputs, msg, trxOut, trxStatus, outcome, raised,
                   startAttempts, deliveries, ncalls, overlapped, initTask, transforms, outsideTask>>

\* trx.rollback() followed by `return` in the handler: the writes of the
\* transaction are dropped, the row lock is released, the handler resolves.
Rollback(w, why, rejects) ==
    /\ rowLock' = IF rowLock = w THEN NoWorker ELSE rowLock
    /\ trxOut' = [trxOut EXCEPT ![w] = 0]
    /\ trxStatus' = [trxStatus EXCEPT ![w] = "none"]
    /\ outcome' = [outcome EXCEPT ![w] = why]
    /\ raised' = [raised EXCEPT ![w] = rejects]
    /\ pc' = [pc EXCEPT ![w] = "done"]
    /\ UNCHANGED <<task, outputs, msg, taskRecord, startAttempts, deliveries,
                   ncalls, overlapped, initTask, transforms, outsideTask>>

\* the four conditions of the handler, tested in this order
\* if (!taskRecord)
NotFound(w) == ~taskRecord[w].exists

\* mutant: the attempts check left out
MaxAttemptsReached_Never(w) == FALSE

\* if (taskRecord.attempts > environment.MAX_ATTEMPTS)
MaxAttemptsReached(w) == taskRecord[w].attempts > MAX_ATTEMPTS

\* mutant: the token check left out
Duplication_Never(w) == FALSE

\* if (taskRecord.collect_uid !== collect_uid)
Duplication(w) == taskRecord[w].collect_uid # msg[w]

\* mutant: the status check left out
AlreadyProcessed_Never(w) == FALSE

\* if (taskRecord.status !== PROCESSING_STATUS.NOT_PROCESSED)
AlreadyProcessed(w) == taskRecord[w].status # NOT_PROCESSED

\* mutant: the missing row reported to the caller as an error
AbortNotFound_Raises(w) ==
    /\ pc[w] = "check"
    /\ NotFound(w)
    /\ Rollback(w, "not_found", TRUE)

\* "Task record not found. Skip processing"
AbortNotFound(w) ==
    /\ pc[w] = "check"
    /\ NotFound(w)
    /\ Rollback(w, "not_found", FALSE)

\* "Max attempts on block ... reached, cancel processing."
AbortMaxAttempts(w) ==
    /\ pc[w] = "check"
    /\ ~NotFound(w)
    /\ MaxAttemptsReached(w)
    /\ Rollback(w, "max_attempts", FALSE)

\* "Possible block ... processing task duplication. ... Skip processing."
AbortDuplication(w) ==
    /\ pc[w] = "check"
    /\ ~NotFound(w)
    /\ ~MaxAttemptsReached(w)
    /\ Duplication(w)
    /\ Rollback(w, "duplication", FALSE)

\* "Block ... has been already processed. Skip processing."
AbortAlreadyProcessed(w) ==
    /\ pc[w] = "check"
    /\ ~NotFound(w)
    /\ ~MaxAttemptsReached(w)
    /\ ~Duplication(w)
    /\ AlreadyProcessed(w)
    /\ Rollback(w, "already_processed", FALSE)

\* "all is good, start processing"
StartProcessing(w) ==
    /\ pc[w] = "check"
    /\ ~NotFound(w)
    /\ ~MaxAttemptsReached(w)
    /\ ~Duplication(w)
    /\ ~AlreadyProcessed(w)
    /\ pc' = [pc EXCEPT ![w] = "processBlock"]
    /\ transforms' = transforms + 1
    /\ UNCHANGED <<task, outputs, rowLock, msg, taskRecord, trxOut, trxStatus,
                   outcome, raised, startAttempts, deliveries, ncalls, overlapped,
                   initTask, outsideTask>>

\* processBlock: getBlockHash, polkadotApi.at, balances.totalIssuance
ProcessBlockRead(w) ==
    /\ pc[w] = "processBlock"
    /\ pc' = [pc EXCEPT ![w] = "insert"]
    /\ UNCHANGED <<task, outputs, rowLock, msg, taskRecord, trxOut, trxStatus,
                   outcome, raised, startAttempts, deliveries, ncalls, overlapped, initTask, transforms, outsideTask>>

\* mutant: the insert without .transacting(trx), committed on its own
ProcessBlockInsert_NoTrx(w) ==
    /\ pc[w] = "insert"
    /\ outputs' = outputs + 1
    /\ pc' = [pc EXCEPT ![w] = "setTaskRecordAsProcessed"]
    /\ UNCHANGED <<task, rowLock, msg, taskRecord, trxOut, trxStatus,
                   outcome, raised, startAttempts, deliveries, ncalls, overlapped, initTask, transforms, outsideTask>>

\* processBlock: TotalIssuance(knex).transacting(trx).insert({...})
ProcessBlockInsert(w) ==
    /\ pc[w] = "insert"
    /\ trxOut' = [trxOut EXCEPT ![w] = @ + 1]
    /\ pc' = [pc EXCEPT ![w] = "setTaskRecordAsProcessed"]
    /\ UNCHANGED <<task, outputs, rowLock, msg, taskRecord, trxStatus,
                   outcome, raised, startAttempts, deliveries, ncalls, overlapped, initTask, transforms, outsideTask>>

\* mutant: the call of setTaskRecordAsProcessed left out
SetTaskRecordAsProcessed_Skipped(w) ==
    /\ pc[w] = "setTaskRecordAsProcessed"
    /\ pc' = [pc EXCEPT ![w] = "commit"]
    /\ UNCHANGED <<task, outputs, rowLock, msg, taskRecord, trxOut, trxStatus,
                   outcome, raised, startAttempts, deliveries, ncalls, overlapped, initTask, transforms, outsideTask>>

\* await this.tasksRepository.setTaskRecordAsProcessed(taskRecord, trx)
SetTaskRecordAsProcessed(w) ==
    /\ pc[w] = "setTaskRecordAsProcessed"
    /\ trxStatus' = [trxStatus EXCEPT ![w] = TasksRepository_setTaskRecordAsProcessed]
    /\ pc' = [pc EXCEPT ![w] = "commit"]
    /\ UNCHANGED <<task, outputs, rowLock, msg, taskRecord, trxOut,
                   outcome, raised, startAttempts, deliveries, ncalls, overlapped, initTask, transforms, outsideTask>>

\* trx.commit(): the writes of the transaction become the committed state
\* in one step and the row lock is released
Commit(w) ==
    /\ pc[w] = "commit"
    /\ task' = IF trxStatus[w] = "none" THEN task ELSE [task EXCEPT !.status = trxStatus[w]]
    /\ outputs' = outputs + trxOut[w]
    /\ rowLock' = IF rowLock = w THEN NoWorker ELSE rowLock
    /\ trxOut' = [trxOut EXCEPT ![w] = 0]
    /\ trxStatus' = [trxStatus EXCEPT ![w] = "none"]
    /\ outcome' = [outcome EXCEPT ![w] = "committed"]
    /\ pc' = [pc EXCEPT ![w] = "done"]
    /\ UNCHANGED <<msg, taskRecord, raised, startAttempts, deliveries, ncalls, overlapped, initTask, transforms, outsideTask>>

\* mutant: .catch logs the error and does not rethrow it
Throw_Swallowed(w) ==
    /\ pc[w] \in {"processBlock", "insert", "setTaskRecordAsProcessed", "commit"}
    /\ Rollback(w, "error", FALSE)

\* a chain read, the insert, setTaskRecordAsProcessed or the commit throws:
\* the handler's promise rejects, knex rolls the transaction back, and
\* .catch logs error.message and rethrows
Throw(w) ==
    /\ pc[w] \in {"processBlock", "insert", "setTaskRecordAsProcessed", "commit"}
    /\ Rollback(w, "error", TRUE)

NextTask ==
    \E w \in Workers :
        \/ \E uid \in Tokens : Deliver(w, uid)
        \/ IncreaseAttempts(w)
        \/ ReadTaskAndLockRow(w)
        \/ AbortNotFound(w)
        \/ AbortMaxAttempts(w)
        \/ AbortDuplication(w)
        \/ AbortAlreadyProcessed(w)
        \/ StartProcessing(w)
        \/ ProcessBlockRead(w)
        \/ ProcessBlockInsert(w)
        \/ SetTaskRecordAsProcessed(w)
        \/ Commit(w)
        \/ Throw(w)

(***************************************************************************)
(* BlocksService.processBlocks, the sync driver                            *)
(***************************************************************************)
Procs == {"p1", "p2"}
Null == -1
ChunkSize == 10
\* the finalized head at the start, the start heights passed by the callers
\* and the checkpoints the store may hold
FirstHead == 119
StartHeights == {FirstHead - ChunkSize - 2}
Checkpoints == {FirstHead}

Min(a, b) == IF a <= b THEN a ELSE b

SyncStart ==
    /\ locked = FALSE
    /\ waiters = <<>>
    /\ chainHead = FirstHead
    /\ lastProcessed \in Checkpoints
    /\ ppc = [p \in Procs |-> "idle"]
    /\ startBlockNumber = [p \in Procs |-> Null]
    /\ blockNumber = [p \in Procs |-> Null]
    /\ lastBlockNumber = [p \in Procs |-> Null]
    /\ jobs = [p \in Procs |-> {}]
    /\ chunks = [p \in Procs |-> <<>>]
    /\ blocked = [p \in Procs |-> FALSE]
    /\ acquired = [p \in Procs |-> FALSE]
    /\ syncCalls = 0
    /\ released = [p \in Procs |-> 0]
    /\ guard = [p \in Procs |-> "none"]

\* the sync driver at rest, for the behaviours of the task processor
SyncAtRest ==
    /\ SyncStart
    /\ lastProcessed = FirstHead

\* the task processor at rest, for the behaviours of the sync driver
TaskAtRest ==
    /\ TaskStart
    /\ task = NoRecord

\* SyncStatus (a mutex): isLocked()
SyncStatus_isLocked == locked

\* the chain reads of checkHistoryDepthAvailableData for one height
ChainViews ==
    [ blockHash : BOOLEAN, blockRawEra : BOOLEAN, currentRawEra : BOOLEAN,
      currentEra : 1..3, blockEra : 0..1, historyDepth : 1..2,
      sessionId : BOOLEAN, activeEra : BOOLEAN, extHeader : BOOLEAN ]

\* currentRawEra.unwrap() throws on a current era of None, which the code
\* reaches after the two early returns
checkHistoryDepthThrows(v) == v.blockHash /\ v.blockRawEra /\ ~v.currentRawEra

\* mutant: the comparison with historyDepth is >= instead of >
checkHistoryDepthAvailableData_AtDepth(v) ==
    IF ~v.blockHash THEN FALSE
    ELSE IF ~v.blockRawEra THEN FALSE
    ELSE IF v.currentEra - v.blockEra >= v.historyDepth
         THEN ~(~v.sessionId \/ ~v.activeEra \/ ~v.extHeader)
         ELSE TRUE

\* checkHistoryDepthAvailableData(blockNumber)
checkHistoryDepthAvailableData(v) ==
    IF ~v.blockHash THEN FALSE
    ELSE IF ~v.blockRawEra THEN FALSE
    ELSE IF v.currentEra - v.blockEra > v.historyDepth
         THEN ~(~v.sessionId \/ ~v.activeEra \/ ~v.extHeader)
         ELSE TRUE

\* the invocation is between the acquisition of the lock and its release
InPass(p) == ppc[p] \in {"getLastProcessedBlock", "getFinBlockNumber",
                         "checkHistoryDepth", "loop", "await", "requery"}

\* release(), after which the invocation returns and its locals are gone: the
\* lock goes to the oldest waiter, whose acquire() resolves, or becomes free
Release(p) ==
    /\ IF waiters = <<>>
       THEN /\ locked' = FALSE
            /\ waiters' = waiters
            /\ ppc' = [ppc EXCEPT ![p] = "done"]
            /\ acquired' = acquired
       ELSE /\ locked' = TRUE
            /\ waiters' = Tail(waiters)
            /\ ppc' = [ppc EXCEPT ![p] = "done", ![Head(waiters)] = "getLastProcessedBlock"]
            /\ acquired' = [acquired EXCEPT ![Head(waiters)] = TRUE]
    /\ released' = [released EXCEPT ![p] = @ + 1]
    /\ startBlockNumber' = [startBlockNumber EXCEPT ![p] = Null]
    /\ blockNumber' = [blockNumber EXCEPT ![p] = Null]
    /\ lastBlockNumber' = [lastBlockNumber EXCEPT ![p] = Null]

\* mutant: processBlocks without the acquisition of SyncStatus
ProcessBlocks_NoAcquire(p, start) ==
    /\ ppc[p] \in {"idle", "done", "rejected"}
    /\ syncCalls < MaxSyncCalls
    /\ syncCalls' = syncCalls + 1
    /\ startBlockNumber' = [startBlockNumber EXCEPT ![p] = start]
    /\ blockNumber' = [blockNumber EXCEPT ![p] = Null]
    /\ lastBlockNumber' = [lastBlockNumber EXCEPT ![p] = Null]
    /\ chunks' = [chunks EXCEPT ![p] = <<>>]
    /\ blocked' = [blocked EXCEPT ![p] = SyncStatus_isLocked]
    /\ released' = [released EXCEPT ![p] = 0]
    /\ guard' = [guard EXCEPT ![p] = "none"]
    /\ acquired' = [acquired EXCEPT ![p] = TRUE]
    /\ ppc' = [ppc EXCEPT ![p] = "getLastProcessedBlock"]
    /\ UNCHANGED <<locked, waiters, chainHead, lastProcessed, jobs, outsideSync>>

\* mutant: a try-acquire, which returns at once when the lock is held
ProcessBlocks_TryAcquire(p, start) ==
    /\ ppc[p] \in {"idle", "done", "rejected"}
    /\ syncCalls < MaxSyncCalls
    /\ syncCalls' = syncCalls + 1
    /\ startBlockNumber' = [startBlockNumber EXCEPT ![p] = start]
    /\ blockNumber' = [blockNumber EXCEPT ![p] = Null]
    /\ lastBlockNumber' = [lastBlockNumber EXCEPT ![p] = Null]
    /\ chunks' = [chunks EXCEPT ![p] = <<>>]
    /\ blocked' = [blocked EXCEPT ![p] = SyncStatus_isLocked]
    /\ released' = [released EXCEPT ![p] = 0]
    /\ guard' = [guard EXCEPT ![p] = "none"]
    /\ IF SyncStatus_isLocked
          THEN /\ ppc' = [ppc EXCEPT ![p] = "done"]
               /\ acquired' = [acquired EXCEPT ![p] = FALSE]
               /\ UNCHANGED <<locked, waiters>>
          ELSE /\ locked' = TRUE
               /\ acquired' = [acquired EXCEPT ![p] = TRUE]
               /\ ppc' = [ppc EXCEPT ![p] = "getLastProcessedBlock"]
               /\ UNCHANGED waiters
    /\ UNCHANGED <<chainHead, lastProcessed, jobs, outsideSync>>

\* processBlocks(startBlockNumber): const release = await SyncStatus.acquire()
\* takes the lock when it is free, and otherwise waits in the queue of the mutex
processBlocks(p, start) ==
    /\ ppc[p] \in {"idle", "done", "rejected"}
    /\ syncCalls < MaxSyncCalls
    /\ syncCalls' = syncCalls + 1
    /\ startBlockNumber' = [startBlockNumber EXCEPT ![p] = start]
    /\ blockNumber' = [blockNumber EXCEPT ![p] = Null]
    /\ lastBlockNumber' = [lastBlockNumber EXCEPT ![p] = Null]
    /\ chunks' = [chunks EXCEPT ![p] = <<>>]
    /\ blocked' = [blocked EXCEPT ![p] = SyncStatus_isLocked]
    /\ released' = [released EXCEPT ![p] = 0]
    /\ guard' = [guard EXCEPT ![p] = "none"]
    /\ IF SyncStatus_isLocked
          THEN /\ waiters' = Append(waiters, p)
               /\ ppc' = [ppc EXCEPT ![p] = "acquire"]
               /\ acquired' = [acquired EXCEPT ![p] = FALSE]
               /\ UNCHANGED locked
          ELSE /\ locked' = TRUE
               /\ acquired' = [acquired EXCEPT ![p] = TRUE]
               /\ ppc' = [ppc EXCEPT ![p] = "getLastProcessedBlock"]
               /\ UNCHANGED waiters
    /\ UNCHANGED <<chainHead, lastProcessed, jobs>>

\* a call of processBlocks by a caller of the service
ProcessBlocks(p, start) ==
    /\ processBlocks(p, start)
    /\ UNCHANGED outsideSync

\* if (startBlockNumber === null)
\*   startBlockNumber = await this.blockRepository.getLastProcessedBlock()
GetLastProcessedBlock(p) ==
    /\ ppc[p] = "getLastProcessedBlock"
    /\ startBlockNumber' = [startBlockNumber EXCEPT
          ![p] = IF startBlockNumber[p] = Null THEN lastProcessed ELSE @]
    /\ ppc' = [ppc EXCEPT ![p] = "getFinBlockNumber"]
    /\ UNCHANGED <<locked, waiters, chainHead, lastProcessed, blockNumber,
                   lastBlockNumber, jobs, chunks, blocked, acquired, syncCalls, released, guard, outsideSync>>

\* let lastBlockNumber = await this.polkadotApi.getFinBlockNumber()
\* let blockNumber = startBlockNumber
GetFinBlockNumber(p) ==
    /\ ppc[p] = "getFinBlockNumber"
    /\ lastBlockNumber' = [lastBlockNumber EXCEPT ![p] = chainHead]
    /\ blockNumber' = [blockNumber EXCEPT ![p] = startBlockNumber[p]]
    /\ ppc' = [ppc EXCEPT ![p] = "checkHistoryDepth"]
    /\ UNCHANGED <<locked, waiters, chainHead, lastProcessed, startBlockNumber,
                   jobs, chunks, blocked, acquired, syncCalls, released, guard, outsideSync>>

\* if (!(await this.checkHistoryDepthAvailableData(startBlockNumber)))
\*   { release(); return }
\* mutant: the early return without release()
CheckHistoryDepthFails_NoRelease(p) ==
    /\ ppc[p] = "checkHistoryDepth"
    /\ \E v \in ChainViews :
          ~checkHistoryDepthThrows(v) /\ ~checkHistoryDepthAvailableData(v)
    /\ guard' = [guard EXCEPT ![p] = "false"]
    /\ ppc' = [ppc EXCEPT ![p] = "done"]
    /\ startBlockNumber' = [startBlockNumber EXCEPT ![p] = Null]
    /\ blockNumber' = [blockNumber EXCEPT ![p] = Null]
    /\ lastBlockNumber' = [lastBlockNumber EXCEPT ![p] = Null]
    /\ UNCHANGED <<locked, waiters, acquired, released, chainHead, lastProcessed,
                   jobs, chunks, blocked, syncCalls, outsideSync>>

CheckHistoryDepthFails(p) ==
    /\ ppc[p] = "checkHistoryDepth"
    /\ \E v \in ChainViews :
          ~checkHistoryDepthThrows(v) /\ ~checkHistoryDepthAvailableData(v)
    /\ guard' = [guard EXCEPT ![p] = "false"]
    /\ Release(p)
    /\ UNCHANGED <<chainHead, lastProcessed, jobs, chunks, blocked, syncCalls, outsideSync>>

CheckHistoryDepthPasses(p) ==
    /\ ppc[p] = "checkHistoryDepth"
    /\ \E v \in ChainViews :
          ~checkHistoryDepthThrows(v) /\ checkHistoryDepthAvailableData(v)
    /\ guard' = [guard EXCEPT ![p] = "true"]
    /\ ppc' = [ppc EXCEPT ![p] = "loop"]
    /\ UNCHANGED <<locked, waiters, chainHead, lastProcessed, startBlockNumber,
                   blockNumber, lastBlockNumber, jobs, chunks, blocked, acquired,
                   syncCalls, released, outsideSync>>

\* const chunk = lastBlockNumber - blockNumber >= 10 ? 10 : (lastBlockNumber - blockNumber) % 10
Chunk(last, bn) ==
    IF last - bn >= ChunkSize THEN ChunkSize ELSE (last - bn) % ChunkSize

\* while (blockNumber <= lastBlockNumber): the chunk is computed and
\* Array(chunk).fill('').map((_, i) => this.runBlocksWorker(i + 1, blockNumber + i))
\* starts one job per height
Dispatch(p) ==
    /\ ppc[p] = "loop"
    /\ blockNumber[p] <= lastBlockNumber[p]
    /\ LET chunk == Chunk(lastBlockNumber[p], blockNumber[p]) IN
          /\ jobs' = [jobs EXCEPT ![p] = @ \cup {blockNumber[p] + i : i \in 0..(chunk - 1)}]
          /\ chunks' = [chunks EXCEPT ![p] =
                Append(@, [from |-> blockNumber[p], n |-> chunk, last |-> lastBlockNumber[p]])]
    /\ ppc' = [ppc EXCEPT ![p] = "await"]
    /\ UNCHANGED <<locked, waiters, chainHead, lastProcessed, startBlockNumber,
                   blockNumber, lastBlockNumber, blocked, acquired, syncCalls, released, guard, outsideSync>>

\* runBlocksWorker(workerId, blockNumber) resolves, to true or to false
JobResolves(p, h) ==
    /\ ppc[p] = "await"
    /\ h \in jobs[p]
    /\ jobs' = [jobs EXCEPT ![p] = @ \ {h}]
    /\ UNCHANGED <<locked, waiters, chainHead, lastProcessed, ppc, startBlockNumber,
                   blockNumber, lastBlockNumber, chunks, blocked, acquired, syncCalls, released, guard, outsideSync>>

\* mutant: the chunk's promises are not awaited
AllResolved_NotAwaited(p) == TRUE

\* Promise.all(processTasks) has resolved: every job of the chunk has
AllResolved(p) == jobs[p] = {}

\* await Promise.all(processTasks); blockNumber += 10;
\* if (blockNumber > lastBlockNumber) the head is asked for again
Advance(p) ==
    /\ ppc[p] = "await"
    /\ AllResolved(p)
    /\ blockNumber' = [blockNumber EXCEPT ![p] = @ + 10]
    /\ ppc' = [ppc EXCEPT ![p] =
          IF blockNumber[p] + 10 > lastBlockNumber[p] THEN "requery" ELSE "loop"]
    /\ UNCHANGED <<locked, waiters, chainHead, lastProcessed, startBlockNumber,
                   lastBlockNumber, jobs, chunks, blocked, acquired, syncCalls,
                   released, guard, outsideSync>>

\* lastBlockNumber = await this.polkadotApi.getFinBlockNumber(), inside the loop
Requery(p) ==
    /\ ppc[p] = "requery"
    /\ lastBlockNumber' = [lastBlockNumber EXCEPT ![p] = chainHead]
    /\ ppc' = [ppc EXCEPT ![p] = "loop"]
    /\ UNCHANGED <<locked, waiters, chainHead, lastProcessed, startBlockNumber,
                   blockNumber, jobs, chunks, blocked, acquired, syncCalls,
                   released, guard, outsideSync>>

\* mutant: the loop ends and processBlocks returns without release()
LoopExit_NoRelease(p) ==
    /\ ppc[p] = "loop"
    /\ ~(blockNumber[p] <= lastBlockNumber[p])
    /\ ppc' = [ppc EXCEPT ![p] = "done"]
    /\ startBlockNumber' = [startBlockNumber EXCEPT ![p] = Null]
    /\ blockNumber' = [blockNumber EXCEPT ![p] = Null]
    /\ lastBlockNumber' = [lastBlockNumber EXCEPT ![p] = Null]
    /\ UNCHANGED <<locked, waiters, acquired, released, chainHead, lastProcessed,
                   jobs, chunks, blocked, syncCalls, guard, outsideSync>>

\* the loop ends: release()
LoopExit(p) ==
    /\ ppc[p] = "loop"
    /\ ~(blockNumber[p] <= lastBlockNumber[p])
    /\ Release(p)
    /\ UNCHANGED <<chainHead, lastProcessed, jobs, chunks, blocked, syncCalls, guard,
                   outsideSync>>

\* getLastProcessedBlock, getFinBlockNumber (before or inside the loop) or
\* checkHistoryDepthAvailableData throws: processBlocks rejects where it is;
\* no handler of it calls release()
Rejects(p) ==
    /\ ppc[p] \in {"getLastProcessedBlock", "getFinBlockNumber", "checkHistoryDepth",
                  "requery"}
    /\ ppc' = [ppc EXCEPT ![p] = "rejected"]
    /\ startBlockNumber' = [startBlockNumber EXCEPT ![p] = Null]
    /\ blockNumber' = [blockNumber EXCEPT ![p] = Null]
    /\ lastBlockNumber' = [lastBlockNumber EXCEPT ![p] = Null]
    /\ UNCHANGED <<locked, waiters, chainHead, lastProcessed, jobs, chunks, blocked,
                   acquired, syncCalls, released, guard, outsideSync>>

\* the chain finalizes one more block; only getFinBlockNumber sees the head,
\* so the step is taken when an invocation is about to read it
HeadAdvances ==
    /\ \E p \in Procs : ppc[p] \in {"getFinBlockNumber", "requery"}
    /\ chainHead < FirstHead + MaxHeadAdvance
    /\ chainHead' = chainHead + 1
    /\ UNCHANGED <<locked, waiters, lastProcessed, ppc, startBlockNumber, blockNumber,
                   lastBlockNumber, jobs, chunks, blocked, acquired, syncCalls, released, guard, outsideSync>>

NextSync ==
    \/ \E p \in Procs :
        \/ \E start \in StartHeights \cup {Null} : ProcessBlocks(p, start)
        \/ GetLastProcessedBlock(p)
        \/ GetFinBlockNumber(p)
        \/ CheckHistoryDepthFails(p)
        \/ CheckHistoryDepthPasses(p)
        \/ Dispatch(p)
        \/ \E h \in jobs[p] : JobResolves(p, h)
        \/ Advance(p)
        \/ Requery(p)
        \/ LoopExit(p)
        \/ Rejects(p)
    \/ HeadAdvances

(***************************************************************************)
(* BlocksService.trimAndUpdateToFinalized                                  *)
(***************************************************************************)
\* the start heights passed by the callers of trimAndUpdateToFinalized
TrimStartHeights == {FirstHead - 2}

TrimStart ==
    /\ tpc = [p \in Procs |-> "idle"]
    /\ trimStart = [p \in Procs |-> Null]
    /\ trimResult = [p \in Procs |-> "none"]
    /\ trimmed = [p \in Procs |-> FALSE]

\* trimAndUpdateToFinalized(startBlockNumber): if (SyncStatus.isLocked()) it
\* logs and returns { result: false }; otherwise it calls trimBlocksFrom, with
\* no await between the test and the call, and awaits it
TrimAndUpdateToFinalized(p, start) ==
    /\ tpc[p] = "idle"
    /\ ppc[p] \in {"idle", "done", "rejected"}
    /\ IF SyncStatus_isLocked
          THEN /\ tpc' = [tpc EXCEPT ![p] = "returned"]
               /\ trimResult' = [trimResult EXCEPT ![p] = "false"]
               /\ UNCHANGED trimStart
          ELSE /\ tpc' = [tpc EXCEPT ![p] = "trimBlocksFrom"]
               /\ trimStart' = [trimStart EXCEPT ![p] = start]
               /\ UNCHANGED trimResult
    /\ UNCHANGED <<trimmed, syncVars, outsideTrim>>

\* the store executes the delete of blockRepository.trimBlocksFrom
TrimBlocksFrom(p) ==
    /\ tpc[p] = "trimBlocksFrom"
    /\ trimmed' = [trimmed EXCEPT ![p] = TRUE]
    /\ tpc' = [tpc EXCEPT ![p] = "await"]
    /\ UNCHANGED <<trimStart, trimResult, syncVars, outsideTrim>>

\* await this.blockRepository.trimBlocksFrom(...) resolves and
\* this.processBlocks(startBlockNumber) is called, which runs to its
\* await SyncStatus.acquire()
TrimResolves(p) ==
    /\ tpc[p] = "await"
    /\ tpc' = [tpc EXCEPT ![p] = "processBlocks"]
    /\ processBlocks(p, trimStart[p])
    /\ UNCHANGED <<trimStart, trimResult, trimmed, outsideTrim>>

\* trimBlocksFrom rejects: the catch logs, return { result: true }
TrimRejects(p) ==
    /\ tpc[p] \in {"trimBlocksFrom", "await"}
    /\ tpc' = [tpc EXCEPT ![p] = "returned"]
    /\ trimResult' = [trimResult EXCEPT ![p] = "true"]
    /\ UNCHANGED <<trimStart, trimmed, syncVars, outsideTrim>>

\* processBlocks has resolved, or has rejected and the catch has logged:
\* return { result: true }
TrimReturns(p) ==
    /\ tpc[p] = "processBlocks"
    /\ ppc[p] \in {"done", "rejected"}
    /\ tpc' = [tpc EXCEPT ![p] = "returned"]
    /\ trimResult' = [trimResult EXCEPT ![p] = "true"]
    /\ UNCHANGED <<trimStart, trimmed, syncVars, outsideTrim>>

\* a call of processBlocks() by a caller that is not inside
\* trimAndUpdateToFinalized
ProcessBlocksBesideTrim(p) ==
    /\ tpc[p] \in {"idle", "returned"}
    /\ ProcessBlocks(p, Null)

NextTrim ==
    \E p \in Procs :
        \/ \E start \in TrimStartHeights : TrimAndUpdateToFinalized(p, start)
        \/ TrimBlocksFrom(p)
        \/ TrimResolves(p)
        \/ TrimRejects(p)
        \/ TrimReturns(p)
        \/ ProcessBlocksBesideTrim(p)
        \/ GetLastProcessedBlock(p)
        \/ GetFinBlockNumber(p)
        \/ CheckHistoryDepthFails(p)
        \/ CheckHistoryDepthPasses(p)
        \/ Dispatch(p)
        \/ \E h \in jobs[p] : JobResolves(p, h)
        \/ Advance(p)
        \/ Requery(p)
        \/ LoopExit(p)
        \/ Rejects(p)

(***************************************************************************)
(* BlocksService.checkHistoryDepthAvailableData, one call for one height   *)
(***************************************************************************)
GuardStart ==
    /\ view \in ChainViews
    /\ guardResult = "pending"

\* no call of the guard, for the behaviours of the other parts
GuardAtRest ==
    /\ view = [ blockHash |-> TRUE, blockRawEra |-> TRUE, currentRawEra |-> TRUE,
                currentEra |-> 1, blockEra |-> 1, historyDepth |-> 1,
                sessionId |-> TRUE, activeEra |-> TRUE, extHeader |-> TRUE ]
    /\ guardResult = "pending"

\* the call returns true or false
CheckHistoryDepthReturns ==
    /\ guardResult = "pending"
    /\ ~checkHistoryDepthThrows(view)
    /\ guardResult' = IF checkHistoryDepthAvailableData(view) THEN "true" ELSE "false"
    /\ UNCHANGED <<view, outsideGuard>>

\* currentRawEra.unwrap() throws and the call rejects
CheckHistoryDepthRejects ==
    /\ guardResult = "pending"
    /\ checkHistoryDepthThrows(view)
    /\ guardResult' = "throws"
    /\ UNCHANGED <<view, outsideGuard>>

NextGuard ==
    \/ CheckHistoryDepthReturns
    \/ CheckHistoryDepthRejects

(***************************************************************************)
(* StakingService: queue = fastq(this, this.processEraPayout, 1)           *)
(***************************************************************************)
\* the concurrency given to fastq
Concurrency == 1
\* calls of addToQueue in one behaviour of the queue
MaxSignals == 3
\* the blocks that hold a staking.EraPayout event
PayoutBlocks == {118, 127}

QueueStart ==
    /\ pushed = <<>>
    /\ epc = <<>>
    /\ erasData = <<>>
    /\ sessionData = <<>>

Items == DOMAIN pushed
\* the items whose worker was called and whose cb was not: fastq counts them
\* as running
InWorker == {i \in Items : epc[i] \notin {"queued", "done"}}
Queued == {i \in Items : epc[i] = "queued"}

\* mutant: a queue without the limit on running workers
QueueIdle_Unbounded == TRUE

\* fastq: fewer workers are running than the concurrency
QueueIdle == Cardinality(InWorker) < Concurrency

\* addToQueue({ eraPayoutEvent, blockHash }): this.queue.push(...). fastq
\* calls the worker at once when it is idle, which runs processEraPayout up to
\* its first await, and otherwise keeps the item at the tail of its list
addToQueue(blockHash) ==
    /\ pushed' = Append(pushed, blockHash)
    /\ epc' = Append(epc, IF QueueIdle THEN "getBlockTime" ELSE "queued")
    /\ UNCHANGED <<erasData, sessionData>>

\* a block job finds the event in its block and calls addToQueue
AddToQueue(blockHash) ==
    /\ Len(pushed) < MaxSignals
    /\ addToQueue(blockHash)
    /\ UNCHANGED outsideQueue

\* const blockTime = await this.polkadotConnector.query.timestamp.now.at(blockHash)
GetBlockTime(i) ==
    /\ epc[i] = "getBlockTime"
    /\ epc' = [epc EXCEPT ![i] = "getEraData"]
    /\ UNCHANGED <<pushed, erasData, sessionData, outsideQueue>>

\* const eraData = await this.getEraData({ blockHash, eraId: +eraId })
GetEraData(i) ==
    /\ epc[i] = "getEraData"
    /\ epc' = [epc EXCEPT ![i] = "getValidatorsAndNominatorsData"]
    /\ UNCHANGED <<pushed, erasData, sessionData, outsideQueue>>

\* const { validators, nominators } = await this.getValidatorsAndNominatorsData(...)
GetValidatorsAndNominatorsData(i) ==
    /\ epc[i] = "getValidatorsAndNominatorsData"
    /\ epc' = [epc EXCEPT ![i] = "sendErasData"]
    /\ UNCHANGED <<pushed, erasData, sessionData, outsideQueue>>

\* one of the chain reads of the item rejects: processEraPayout rejects, and
\* cb is not called
ChainReadThrows(i) ==
    /\ epc[i] \in {"getBlockTime", "getEraData", "getValidatorsAndNominatorsData"}
    /\ epc' = [epc EXCEPT ![i] = "thrown"]
    /\ UNCHANGED <<pushed, erasData, sessionData, outsideQueue>>

\* await this.kafkaProducer.send({ topic: KAFKA_PREFIX + '_STAKING_ERAS_DATA', ... })
SendErasData(i) ==
    /\ epc[i] = "sendErasData"
    /\ erasData' = Append(erasData, i)
    /\ epc' = [epc EXCEPT ![i] = "sendSessionData"]
    /\ UNCHANGED <<pushed, sessionData, outsideQueue>>

\* await this.kafkaProducer.send({ topic: KAFKA_PREFIX + '_SESSION_DATA', ... })
SendSessionData(i) ==
    /\ epc[i] = "sendSessionData"
    /\ sessionData' = Append(sessionData, i)
    /\ epc' = [epc EXCEPT ![i] = "cb"]
    /\ UNCHANGED <<pushed, erasData, outsideQueue>>

\* a send rejects: the catch logs and throws new Error(...), processEraPayout
\* rejects, and cb is not called
SendThrows(i) ==
    /\ epc[i] \in {"sendErasData", "sendSessionData"}
    /\ epc' = [epc EXCEPT ![i] = "thrown"]
    /\ UNCHANGED <<pushed, erasData, sessionData, outsideQueue>>

\* cb(null): fastq releases the worker and calls it for the head of its list
Cb(i) ==
    /\ epc[i] = "cb"
    /\ epc' = [j \in Items |->
                 IF j = i THEN "done"
                 ELSE IF j \in Queued /\ \A k \in Queued : j <= k THEN "getBlockTime"
                 ELSE epc[j]]
    /\ UNCHANGED <<pushed, erasData, sessionData, outsideQueue>>

NextQueue ==
    \/ \E b \in PayoutBlocks : AddToQueue(b)
    \/ \E i \in Items :
        \/ GetBlockTime(i)
        \/ GetEraData(i)
        \/ GetValidatorsAndNominatorsData(i)
        \/ ChainReadThrows(i)
        \/ SendErasData(i)
        \/ SendSessionData(i)
        \/ SendThrows(i)
        \/ Cb(i)

(***************************************************************************)
(* BlocksService.runBlocksWorker and processBlock: the block jobs of the   *)
(* chunks of one pass                                                      *)
(***************************************************************************)
\* for (let attempts = 5; ...
WorkerAttempts == 5
\* the pass starts two blocks below the head
JobStartHeights == {FirstHead - 2}
JobHeights == (FirstHead - 2)..(FirstHead + ChunkSize - 1)

JobsStart ==
    /\ attempts = [h \in JobHeights |-> WorkerAttempts]
    /\ wpc = [h \in JobHeights |-> "for"]
    /\ lastError = [h \in JobHeights |-> FALSE]
    /\ runs = [h \in JobHeights |-> 0]
    /\ jobResult = [h \in JobHeights |-> "none"]
    /\ sentBlockData = [h \in JobHeights |-> 0]
    /\ counter = 0

\* mutant: the loop condition attempts >= 0
MoreAttempts_OneMore(a) == a >= 0

\* the loop condition attempts > 0
MoreAttempts(a) == a > 0

\* the loop body starts: let lastError = null; this.processBlock(blockNumber)
\* is called and runs to its first await
WorkerAttempt(p, h) ==
    /\ h \in jobs[p]
    /\ wpc[h] = "for"
    /\ MoreAttempts(attempts[h])
    /\ lastError' = [lastError EXCEPT ![h] = FALSE]
    /\ runs' = [runs EXCEPT ![h] = IF attempts[h] = WorkerAttempts THEN 1 ELSE @ + 1]
    /\ jobResult' = [jobResult EXCEPT ![h] = "none"]
    /\ wpc' = [wpc EXCEPT ![h] = "getBlockHashByHeight"]
    /\ UNCHANGED <<attempts, sentBlockData, counter, jobs, queueVars, outsideJobs>>

\* blockHash = await this.polkadotApi.getBlockHashByHeight(height)
GetBlockHashByHeight(p, h) ==
    /\ h \in jobs[p]
    /\ wpc[h] = "getBlockHashByHeight"
    /\ wpc' = [wpc EXCEPT ![h] = "getInfoToProcessBlock"]
    /\ UNCHANGED <<attempts, lastError, runs, jobResult, sentBlockData, counter, jobs,
                   queueVars, outsideJobs>>

\* await this.polkadotApi.getInfoToProcessBlock(blockHash); the block data
\* is assembled, processEvents included
GetInfoToProcessBlock(p, h) ==
    /\ h \in jobs[p]
    /\ wpc[h] = "getInfoToProcessBlock"
    /\ wpc' = [wpc EXCEPT ![h] = "sendBlockData"]
    /\ UNCHANGED <<attempts, lastError, runs, jobResult, sentBlockData, counter, jobs,
                   queueVars, outsideJobs>>

\* mutant: the progress counter advanced when the block record is published
SendBlockData_CountsFirst(p, h) ==
    /\ h \in jobs[p]
    /\ wpc[h] = "sendBlockData"
    /\ sentBlockData' = [sentBlockData EXCEPT ![h] = @ + 1]
    /\ counter' = counter + 1
    /\ wpc' = [wpc EXCEPT ![h] = "extractExtrinsics"]
    /\ UNCHANGED <<attempts, lastError, runs, jobResult, jobs, queueVars,
                   outsideJobs>>

\* await this.kafka.sendBlockData(blockData)
SendBlockData(p, h) ==
    /\ h \in jobs[p]
    /\ wpc[h] = "sendBlockData"
    /\ sentBlockData' = [sentBlockData EXCEPT ![h] = @ + 1]
    /\ wpc' = [wpc EXCEPT ![h] = "extractExtrinsics"]
    /\ UNCHANGED <<attempts, lastError, runs, jobResult, counter, jobs, queueVars,
                   outsideJobs>>

\* await this.extrinsicsService.extractExtrinsics(...); then, without an
\* await, addToQueue if the block has a staking.EraPayout event, and
\* counter.inc(1); processBlock resolves
ExtractExtrinsics(p, h) ==
    /\ h \in jobs[p]
    /\ wpc[h] = "extractExtrinsics"
    /\ IF h \in PayoutBlocks THEN addToQueue(h) ELSE UNCHANGED queueVars
    /\ counter' = counter + 1
    /\ wpc' = [wpc EXCEPT ![h] = "resolved"]
    /\ UNCHANGED <<attempts, lastError, runs, jobResult, sentBlockData, jobs, outsideJobs>>

\* mutant: the era-payout signal is enqueued ahead of extractExtrinsics, so
\* an attempt that fails there has already enqueued it
ProcessBlockThrows_AfterEnqueue(p, h) ==
    /\ h \in jobs[p]
    /\ wpc[h] \in {"getBlockHashByHeight", "getInfoToProcessBlock", "sendBlockData",
                   "extractExtrinsics"}
    /\ IF wpc[h] = "extractExtrinsics" /\ h \in PayoutBlocks
          THEN addToQueue(h) ELSE UNCHANGED queueVars
    /\ lastError' = [lastError EXCEPT ![h] = TRUE]
    /\ wpc' = [wpc EXCEPT ![h] = "sleep"]
    /\ UNCHANGED <<attempts, runs, jobResult, sentBlockData, counter, jobs,
                   outsideJobs>>

\* a step of processBlock throws or rejects (no hash, no block, a chain read
\* or a send fails): the catch of runBlocksWorker sets lastError
ProcessBlockThrows(p, h) ==
    /\ h \in jobs[p]
    /\ wpc[h] \in {"getBlockHashByHeight", "getInfoToProcessBlock", "sendBlockData",
                   "extractExtrinsics"}
    /\ lastError' = [lastError EXCEPT ![h] = TRUE]
    /\ wpc' = [wpc EXCEPT ![h] = "sleep"]
    /\ UNCHANGED <<attempts, runs, jobResult, sentBlockData, counter, jobs, queueVars,
                   outsideJobs>>

\* if (!lastError) return true: the job resolves and its locals are gone
WorkerReturnsTrue(p, h) ==
    /\ h \in jobs[p]
    /\ wpc[h] = "resolved"
    /\ ~lastError[h]
    /\ jobResult' = [jobResult EXCEPT ![h] = "true"]
    /\ jobs' = [jobs EXCEPT ![p] = @ \ {h}]
    /\ attempts' = [attempts EXCEPT ![h] = WorkerAttempts]
    /\ wpc' = [wpc EXCEPT ![h] = "for"]
    /\ UNCHANGED <<lastError, runs, sentBlockData, counter, queueVars, outsideJobs>>

\* await this.sleep(2000); attempts--
Sleep(p, h) ==
    /\ h \in jobs[p]
    /\ wpc[h] = "sleep"
    /\ attempts' = [attempts EXCEPT ![h] = @ - 1]
    /\ wpc' = [wpc EXCEPT ![h] = "for"]
    /\ UNCHANGED <<lastError, runs, jobResult, sentBlockData, counter, jobs, queueVars,
                   outsideJobs>>

\* mutant: the job throws after its last attempt, Promise.all rejects and
\* with it processBlocks
WorkerReturnsFalse_Throws(p, h) ==
    /\ h \in jobs[p]
    /\ wpc[h] = "for"
    /\ ~MoreAttempts(attempts[h])
    /\ jobResult' = [jobResult EXCEPT ![h] = "false"]
    /\ jobs' = [jobs EXCEPT ![p] = @ \ {h}]
    /\ attempts' = [attempts EXCEPT ![h] = WorkerAttempts]
    /\ wpc' = [wpc EXCEPT ![h] = "for"]
    /\ lastError' = [lastError EXCEPT ![h] = FALSE]
    /\ ppc' = [ppc EXCEPT ![p] = "rejected"]
    /\ UNCHANGED <<runs, sentBlockData, counter, queueVars, taskVars, guardVars, eraVars,
                   trimVars, locked, waiters, chainHead, lastProcessed, startBlockNumber,
                   blockNumber, lastBlockNumber, chunks, blocked, acquired, syncCalls,
                   released, guard>>

\* the loop is over: return false
WorkerReturnsFalse(p, h) ==
    /\ h \in jobs[p]
    /\ wpc[h] = "for"
    /\ ~MoreAttempts(attempts[h])
    /\ jobResult' = [jobResult EXCEPT ![h] = "false"]
    /\ jobs' = [jobs EXCEPT ![p] = @ \ {h}]
    /\ attempts' = [attempts EXCEPT ![h] = WorkerAttempts]
    /\ wpc' = [wpc EXCEPT ![h] = "for"]
    /\ lastError' = [lastError EXCEPT ![h] = FALSE]
    /\ UNCHANGED <<runs, sentBlockData, counter, queueVars, outsideJobs>>

\* runBlocksWorker(workerId, blockNumber): a step of the job of the height
runBlocksWorker(p, h) ==
    \/ WorkerAttempt(p, h)
    \/ GetBlockHashByHeight(p, h)
    \/ GetInfoToProcessBlock(p, h)
    \/ SendBlockData(p, h)
    \/ ExtractExtrinsics(p, h)
    \/ ProcessBlockThrows(p, h)
    \/ WorkerReturnsTrue(p, h)
    \/ Sleep(p, h)
    \/ WorkerReturnsFalse(p, h)

\* the one call of processBlocks of these behaviours
ProcessBlocksOnce(p, start) ==
    /\ syncCalls = 0
    /\ ProcessBlocks(p, start)

\* the chain has finalized nine more blocks while the chunk was processed,
\* which the read of the head after the chunk sees
HeadJumps ==
    /\ \E p \in Procs : ppc[p] = "requery"
    /\ chainHead = FirstHead
    /\ chainHead' = chainHead + ChunkSize - 1
    /\ UNCHANGED <<locked, waiters, lastProcessed, ppc, startBlockNumber, blockNumber,
                   lastBlockNumber, jobs, chunks, blocked, acquired, syncCalls, released,
                   guard, outsideSync>>

NextJobs ==
    \/ \E p \in Procs :
        \/ \E start \in JobStartHeights : ProcessBlocksOnce(p, start)
        \/ GetLastProcessedBlock(p)
        \/ GetFinBlockNumber(p)
        \/ CheckHistoryDepthFails(p)
        \/ CheckHistoryDepthPasses(p)
        \/ Dispatch(p)
        \/ Advance(p)
        \/ Requery(p)
        \/ LoopExit(p)
        \/ Rejects(p)
        \/ \E h \in JobHeights : runBlocksWorker(p, h)
    \/ HeadJumps

(***************************************************************************)
(* StakingService.getValidatorsAndNominatorsData, one call for one era     *)
(***************************************************************************)
Validators == {"v1", "v2"}
Stakers == {"s1", "s2"}
\* the longest others of an exposure and of a clipped exposure
MaxOthers == 2
MaxClipped == 1

SeqsUpTo(S, n) == UNION {[1..k -> S] : k \in 0..n}

EraStart ==
    /\ erasStakers \in [Validators -> [others : SeqsUpTo(Stakers, MaxOthers),
                                        clipped : SeqsUpTo(Stakers, MaxClipped)]]
    /\ payeeRejects \in SUBSET Stakers
    /\ nominators = <<>>
    /\ validators = <<>>

\* no call of the aggregation, for the behaviours of the other parts
EraAtRest ==
    /\ erasStakers = [v \in Validators |-> [others |-> <<>>, clipped |-> <<>>]]
    /\ payeeRejects = {}
    /\ nominators = <<>>
    /\ validators = <<>>

\* stakersClipped.others.find((e) => e.who.toString() === staker.who.toString())
\* is not undefined
Find(others, who) == \E i \in DOMAIN others : others[i] = who

\* mutant: is_clipped: isClipped, without the negation
is_clipped_Found(staker, stakersClipped) == Find(stakersClipped, staker)

\* is_clipped: !isClipped
is_clipped(staker, stakersClipped) == ~Find(stakersClipped, staker)

\* the loop of processValidator over stakers.others, from the i-th staker on:
\* a nominator is pushed for each staker unless the read of its payee
\* rejects, which the catch of the loop body logs
RECURSIVE NominatorsFrom(_, _, _, _)
NominatorsFrom(validatorAccountId, stakers, stakersClipped, i) ==
    IF i > Len(stakers) THEN <<>>
    ELSE LET staker == stakers[i]
             nominator == [ account_id |-> staker,
                            validator |-> validatorAccountId,
                            is_clipped |-> is_clipped(staker, stakersClipped) ]
             rest == NominatorsFrom(validatorAccountId, stakers, stakersClipped, i + 1)
         IN  IF staker \in payeeRejects THEN rest ELSE <<nominator>> \o rest

IsPushed(v) == \E i \in DOMAIN validators : validators[i] = v

\* one iteration of the loop over validatorsAccountIdSet: the two exposures
\* are read and processValidator pushes the nominators and the validator
ProcessValidator(v) ==
    /\ ~IsPushed(v)
    /\ nominators' = nominators \o
          NominatorsFrom(v, erasStakers[v].others, erasStakers[v].clipped, 1)
    /\ validators' = Append(validators, v)
    /\ UNCHANGED <<erasStakers, payeeRejects, outsideEra>>

NextEra == \E v \in Validators : ProcessValidator(v)

(***************************************************************************)
(* The specifications                                                      *)
(***************************************************************************)
\* the parts a specification does not run stay as they are constructed
InitTask ==
    TaskStart /\ SyncAtRest /\ GuardAtRest /\ QueueStart /\ JobsStart /\ EraAtRest
        /\ TrimStart

InitSync ==
    SyncStart /\ TaskAtRest /\ GuardAtRest /\ QueueStart /\ JobsStart /\ EraAtRest
        /\ TrimStart

InitGuard ==
    GuardStart /\ TaskAtRest /\ SyncAtRest /\ QueueStart /\ JobsStart /\ EraAtRest
        /\ TrimStart

InitQueue ==
    QueueStart /\ TaskAtRest /\ SyncAtRest /\ GuardAtRest /\ JobsStart /\ EraAtRest
        /\ TrimStart

InitJobs ==
    JobsStart /\ SyncAtRest /\ TaskAtRest /\ GuardAtRest /\ QueueStart /\ EraAtRest
        /\ TrimStart

InitEra ==
    EraStart /\ TaskAtRest /\ SyncAtRest /\ GuardAtRest /\ QueueStart /\ JobsStart
        /\ TrimStart

InitTrim ==
    TrimStart /\ SyncAtRest /\ TaskAtRest /\ GuardAtRest /\ QueueStart /\ JobsStart
        /\ EraAtRest

SpecTask == InitTask /\ [][NextTask]_vars

SpecSync == InitSync /\ [][NextSync]_vars

SpecGuard == InitGuard /\ [][NextGuard]_vars

SpecQueue == InitQueue /\ [][NextQueue]_vars

SpecJobs == InitJobs /\ [][NextJobs]_vars

SpecEra == InitEra /\ [][NextEra]_vars
SpecTrim == InitTrim /\ [][NextTrim]_vars

(***************************************************************************)
(* Claims on the task-processing protocol (SpecTask)                       *)
(***************************************************************************)
Running(w) == pc[w] \notin {"idle", "done"}
InTransform(w) == pc[w] \in {"processBlock", "insert", "setTaskRecordAsProcessed", "commit"}
Aborts == {"not_found", "max_attempts", "duplication", "already_processed"}
\* the invocation of w takes a step of the handler
StepOf(w) == Running(w) /\ pc'[w] # pc[w]
Committers == {w \in Workers : pc[w] = "done" /\ outcome[w] = "committed"}

\* processTaskMessage was called exactly twice, once per worker, the second
\* call while the first was running, both with the stored token, for a task
\* that was NOT_PROCESSED; both calls have returned
TwoConcurrentCalls ==
    /\ initTask.exists
    /\ initTask.status = NOT_PROCESSED
    /\ deliveries = 2
    /\ overlapped
    /\ \A w \in Workers : ncalls[w] = 1 /\ pc[w] = "done" /\ msg[w] = initTask.collect_uid

\* C1 (as stated): of two concurrent calls for the same entity with the
\* stored token, exactly one moves the task to PROCESSED and the other reads
\* PROCESSED under the row lock and aborts.
C1_ExactlyOneProcesses ==
    TwoConcurrentCalls =>
        /\ outputs = 1
        /\ task.status = PROCESSED
        /\ \E w \in Workers :
              /\ outcome[w] = "committed"
              /\ \A o \in Workers \ {w} :
                    /\ outcome[o] = "already_processed"
                    /\ taskRecord[o].status = PROCESSED

\* C1 (amended): two concurrent calls never commit two outputs and at most
\* one of them moves the task to PROCESSED; when neither call throws and
\* attempts stays within MAX_ATTEMPTS after both increments, exactly one
\* moves it to PROCESSED and the other reads PROCESSED under the row lock
\* and aborts.
C1_AtMostOneProcesses ==
    TwoConcurrentCalls =>
        /\ outputs <= 1
        /\ Cardinality(Committers) <= 1
        /\ ((\A w \in Workers : ~raised[w]) /\ task.attempts <= MAX_ATTEMPTS) =>
              /\ outputs = 1
              /\ task.status = PROCESSED
              /\ \E w \in Workers :
                    /\ outcome[w] = "committed"
                    /\ \A o \in Workers \ {w} :
                          /\ outcome[o] = "already_processed"
                          /\ taskRecord[o].status = PROCESSED
                          /\ ~raised[o]

C1_Witness ==
    /\ TwoConcurrentCalls
    /\ \E w \in Workers : \E o \in Workers \ {w} :
          /\ outcome[w] = "committed"
          /\ outcome[o] = "already_processed"
          /\ taskRecord[o].status = PROCESSED

\* C2: whatever the deliveries (duplicates, redeliveries after a failure,
\* stale tokens, concurrent workers), the output row of the entity is
\* committed at most once.
C2_OutputAtMostOnce == outputs <= 1

C2_Witness ==
    /\ outputs = 1
    /\ initTask.status = NOT_PROCESSED
    /\ deliveries >= 3
    /\ \E w \in Workers : pc[w] = "done" /\ outcome[w] = "already_processed"

\* C3: every call for an existing task adds exactly 1 to attempts, before
\* the row is read and checked and whatever the outcome; attempts never
\* decreases.
C3_CallsPastIncrease == deliveries - Cardinality({w \in Workers : pc[w] = "increaseAttempts"})

C3_AttemptsCountCalls ==
    /\ [](task.exists => task.attempts = initTask.attempts + C3_CallsPastIncrease)
    /\ [](\A w \in Workers :
            (task.exists /\ pc[w] \notin {"idle", "increaseAttempts"}) =>
                task.attempts >= startAttempts[w] + 1)
    /\ [][task'.attempts >= task.attempts]_vars

C3_Witness ==
    /\ task.exists
    /\ deliveries = 3
    /\ task.attempts = initTask.attempts + 3
    /\ \E w \in Workers : pc[w] = "done" /\ outcome[w] = "error"
    /\ \E w \in Workers : pc[w] = "done" /\ outcome[w] \in Aborts

\* the delivery handled by w carries a token that is not the stored one
Stale(w) == task.exists /\ msg[w] # task.collect_uid

\* C4 (as stated): a delivery whose token differs from the stored one causes
\* no status transition and no store write.
C4_StaleWritesNothing ==
    [][\A w \in Workers : (StepOf(w) /\ Stale(w)) => (task' = task /\ outputs' = outputs)]_vars

\* C4 (amended): a delivery whose token differs from the stored one causes
\* no status transition and writes no output row, inside or outside a
\* transaction; its only store write is the increment of attempts.
C4_StaleWritesOnlyAttempts ==
    /\ [](\A w \in Workers :
            (Running(w) /\ Stale(w)) =>
                (~InTransform(w) /\ trxOut[w] = 0 /\ trxStatus[w] = "none"))
    /\ [](\A w \in Workers :
            (pc[w] = "done" /\ Stale(w)) => outcome[w] \in Aborts)
    /\ [][\A w \in Workers :
            (StepOf(w) /\ Stale(w)) =>
                /\ outputs' = outputs
                /\ task'.status = task.status
                /\ task'.collect_uid = task.collect_uid
                /\ task'.exists = task.exists
                /\ IF pc[w] = "increaseAttempts"
                      THEN task'.attempts = task.attempts + 1
                      ELSE task'.attempts = task.attempts]_vars

C4_Witness ==
    \E w \in Workers :
        /\ Stale(w)
        /\ pc[w] = "done"
        /\ outcome[w] = "duplication"
        /\ task.status = NOT_PROCESSED
        /\ task.attempts = startAttempts[w] + 1

\* C5: in every committed state of the store the output row exists if and
\* only if the task is PROCESSED.
C5_OutputIffProcessed == (outputs >= 1) <=> (task.exists /\ task.status = PROCESSED)

C5_Witness ==
    /\ initTask.status = NOT_PROCESSED
    /\ outputs = 1
    /\ task.status = PROCESSED
    /\ \E w \in Workers : pc[w] = "done" /\ outcome[w] = "committed"

\* the invocation of w ends by an exception of the transform, of
\* setTaskRecordAsProcessed or of the commit
Fails(w) == InTransform(w) /\ pc'[w] = "done" /\ outcome'[w] # "committed"

\* C6: when the transform or the mark/commit step throws, the transaction is
\* rolled back (status stays NOT_PROCESSED, no output row remains, attempts
\* keeps its increment) and the error is re-raised to the caller.
C6_FailureRollsBackAndRaises ==
    [][\A w \in Workers :
          Fails(w) =>
              /\ raised'[w]
              /\ outcome'[w] = "error"
              /\ task' = task
              /\ task'.status = NOT_PROCESSED
              /\ outputs' = 0
              /\ trxOut'[w] = 0
              /\ trxStatus'[w] = "none"
              /\ rowLock' = NoWorker
              /\ task'.attempts >= startAttempts[w] + 1]_vars

C6_Witness ==
    \E w \in Workers :
        /\ pc[w] = "done"
        /\ outcome[w] = "error"
        /\ raised[w]
        /\ task.status = NOT_PROCESSED
        /\ outputs = 0
        /\ rowLock = NoWorker
        /\ task.attempts > startAttempts[w]

\* the row read under the lock is one of the four abort cases
C7_AbortCase(w) ==
    \/ ~taskRecord[w].exists
    \/ taskRecord[w].attempts > MAX_ATTEMPTS
    \/ taskRecord[w].collect_uid # msg[w]
    \/ taskRecord[w].status # NOT_PROCESSED

C7_Reason(w) ==
    IF ~taskRecord[w].exists THEN "not_found"
    ELSE IF taskRecord[w].attempts > MAX_ATTEMPTS THEN "max_attempts"
    ELSE IF taskRecord[w].collect_uid # msg[w] THEN "duplication"
    ELSE "already_processed"

\* C7: when the row is missing, attempts exceed the maximum, the token
\* differs or the status is not NOT_PROCESSED, processTaskMessage rolls back,
\* runs no transform, leaves the status unchanged and returns without an
\* error.
C7_AbortsSilently ==
    /\ [](\A w \in Workers : InTransform(w) => ~C7_AbortCase(w))
    /\ [](\A w \in Workers :
            (pc[w] = "done" /\ C7_AbortCase(w)) =>
                /\ outcome[w] = C7_Reason(w)
                /\ ~raised[w]
                /\ trxOut[w] = 0
                /\ trxStatus[w] = "none"
                /\ rowLock # w)
    /\ [][\A w \in Workers :
            (pc[w] = "check" /\ C7_AbortCase(w) /\ pc'[w] # pc[w]) =>
                (pc'[w] = "done" /\ task' = task /\ outputs' = outputs)]_vars

C7_Witness ==
    /\ \E w \in Workers : pc[w] = "done" /\ outcome[w] = "max_attempts" /\ ~raised[w]
    /\ \E w \in Workers : pc[w] = "done" /\ outcome[w] = "already_processed" /\ ~raised[w]
    /\ task.status = PROCESSED

(***************************************************************************)
(* Claims on the sync driver (SpecSync)                                    *)
(***************************************************************************)
Waiting(p) == ppc[p] = "acquire"
InWaiters(p) == \E i \in DOMAIN waiters : waiters[i] = p
OtherInPass(q) == \E p \in Procs \ {q} : InPass(p)

\* C8: at most one processBlocks pass is between the acquisition of the lock
\* and its release at any time, and an invocation dispatches no block job
\* while the pass of another one is active.
C8_OnePassAtATime ==
    /\ [](\A p, q \in Procs : (p # q) => ~(InPass(p) /\ InPass(q)))
    /\ [](\A p \in Procs : InPass(p) => locked)
    /\ [](\A q \in Procs : OtherInPass(q) => jobs[q] = {})
    /\ [][\A q \in Procs : OtherInPass(q) => Len(chunks'[q]) <= Len(chunks[q])]_vars

C8_Witness ==
    \E p \in Procs : \E q \in Procs \ {p} :
        /\ InPass(p)
        /\ Len(chunks[p]) = 2
        /\ jobs[p] # {}
        /\ Waiting(q)
        /\ chunks[q] = <<>>

\* C9 (as stated): a processBlocks attempt made while a pass is active fails
\* fast: it does not wait for the lock and runs no pass later.
C9_SecondAttemptFailsFast ==
    \A p \in Procs : blocked[p] => (~Waiting(p) /\ ~InWaiters(p) /\ ~acquired[p])

\* C9 (amended): a processBlocks attempt made while a pass is active does not
\* fail fast: it waits in SyncStatus.acquire(), dispatching nothing while it
\* waits, it leaves the wait only by being given the lock at a release, and
\* it then runs its own pass.
C9_SecondAttemptQueues ==
    /\ [](\A p \in Procs :
            Waiting(p) =>
                /\ blocked[p]
                /\ locked
                /\ InWaiters(p)
                /\ ~acquired[p]
                /\ chunks[p] = <<>>
                /\ jobs[p] = {})
    /\ [](\A p \in Procs : (blocked[p] /\ ~Waiting(p)) => acquired[p])
    /\ [][\A p \in Procs :
            (Waiting(p) /\ ~Waiting(p)') =>
                /\ ppc'[p] = "getLastProcessedBlock"
                /\ locked'
                /\ \E q \in Procs \ {p} : InPass(q) /\ ppc'[q] = "done"]_vars

C9_Witness ==
    \E p \in Procs :
        /\ blocked[p]
        /\ acquired[p]
        /\ ppc[p] = "done"
        /\ Len(chunks[p]) >= 1
        /\ chunks[p][1].n > 0

\* C10: every chunk of the loop has min(10, headHeight - currentHeight + 1)
\* block jobs.
C10_ChunkIsMin ==
    \A p \in Procs : \A i \in DOMAIN chunks[p] :
        chunks[p][i].n = Min(ChunkSize, chunks[p][i].last - chunks[p][i].from + 1)

(***************************************************************************)
(* Claims on the chunked loop of the sync driver                           *)
(***************************************************************************)
\* the number of block jobs the invocation has dispatched for the height
JobsFor(p, h) ==
    Cardinality({i \in DOMAIN chunks[p] :
                    chunks[p][i].from <= h /\ h < chunks[p][i].from + chunks[p][i].n})

\* the loop of the invocation has ended and release() is next
LoopEnded(p) == ppc[p] = "loop" /\ ~(blockNumber[p] <= lastBlockNumber[p])

\* C11: after each chunk the current height advances by exactly the number
\* of jobs dispatched, and so in one pass every height from the start height
\* to the last observed head gets exactly one block job.
C11_EveryHeightExactlyOnce ==
    /\ [][\A p \in Procs :
            (ppc[p] = "await" /\ ppc'[p] # "await") =>
                blockNumber'[p] = blockNumber[p] + chunks[p][Len(chunks[p])].n]_vars
    /\ [](\A p \in Procs :
            LoopEnded(p) =>
                \A h \in startBlockNumber[p]..lastBlockNumber[p] : JobsFor(p, h) = 1)

\* what of C11 the loop does keep: no height gets two jobs in one pass
C11_NoHeightTwice ==
    \A p \in Procs : \A h \in 0..(FirstHead + MaxHeadAdvance + ChunkSize) : JobsFor(p, h) <= 1

\* C12: when the history-depth guard fails for the start height, processBlocks
\* dispatches no block job, leaves the checkpoint as it was, releases the
\* sync lock (to the oldest waiter if there is one) and stops.
C12_GuardFailureStops ==
    /\ [](\A p \in Procs :
            guard[p] = "false" =>
                /\ ppc[p] = "done"
                /\ chunks[p] = <<>>
                /\ jobs[p] = {}
                /\ released[p] = 1)
    /\ [][\A p \in Procs :
            (guard[p] # "false" /\ guard'[p] = "false") =>
                /\ lastProcessed' = lastProcessed
                /\ IF waiters = <<>>
                   THEN ~locked'
                   ELSE ppc'[Head(waiters)] = "getLastProcessedBlock"]_vars

C12_Witness ==
    \E p \in Procs :
        /\ guard[p] = "false"
        /\ ppc[p] = "done"
        /\ startBlockNumber[p] = Null
        /\ ~locked

LastChunkHeights(p) ==
    LET c == chunks[p][Len(chunks[p])] IN {c.from + i : i \in 0..(c.n - 1)}

\* C18: chunks are separated by a barrier: at every moment the block jobs in
\* flight all belong to one chunk, the one dispatched last by the running
\* pass, and are at most 10, and a chunk is dispatched only when every job of
\* the chunk before it has resolved.
C18_ChunkBarrier ==
    /\ [](\A p \in Procs :
            jobs[p] # {} =>
                /\ ppc[p] = "await"
                /\ chunks[p] # <<>>
                /\ jobs[p] \subseteq LastChunkHeights(p)
                /\ Cardinality(jobs[p]) <= ChunkSize)
    /\ [](\A p \in Procs : \A q \in Procs \ {p} : jobs[p] = {} \/ jobs[q] = {})
    /\ [][\A p \in Procs : Len(chunks'[p]) > Len(chunks[p]) => jobs[p] = {}]_vars

C18_Witness ==
    \E p \in Procs :
        /\ Len(chunks[p]) = 2
        /\ chunks[p][1].n = ChunkSize
        /\ jobs[p] # {}
        /\ jobs[p] # LastChunkHeights(p)

(***************************************************************************)
(* Claims on the history-depth guard (SpecGuard)                           *)
(***************************************************************************)
\* the degraded regime of the guard
Degraded(v) == v.currentEra - v.blockEra > v.historyDepth
InfoResolvable(v) == v.sessionId /\ v.activeEra /\ v.extHeader

\* C20: with the current era known, the guard for a height passes if and
\* only if the block hash and the era of the height are resolvable and either
\* currentEra - blockEra <= historyDepth or, in the degraded regime, session
\* id, active era and header are all resolvable; in the degraded regime it
\* fails when one of the three is missing. It never passes otherwise.
C20_GuardPassesIff ==
    guardResult # "pending" =>
        /\ view.currentRawEra =>
              (guardResult = "true" <=>
                  /\ view.blockHash
                  /\ view.blockRawEra
                  /\ (view.currentEra - view.blockEra <= view.historyDepth
                        \/ (Degraded(view) /\ InfoResolvable(view))))
        /\ (view.currentRawEra /\ Degraded(view) /\ ~InfoResolvable(view)) =>
              guardResult = "false"
        /\ ~view.currentRawEra => guardResult # "true"

C20_Witness ==
    /\ guardResult = "true"
    /\ Degraded(view)
    /\ InfoResolvable(view)

(***************************************************************************)
(* Claims on the queue of era payouts (SpecQueue)                          *)
(***************************************************************************)
Processing(i) == epc[i] \notin {"queued", "done", "thrown"}
IsOrdered(seq) == \A m, n \in DOMAIN seq : m < n => seq[m] < seq[n]

\* C15: era-payout items are processed in the order of their addToQueue
\* calls, one at a time: no step of an item is taken before the processing
\* of every item pushed before it has completed.
C15_InOrderOneAtATime ==
    /\ [](Cardinality({i \in Items : Processing(i)}) <= 1)
    /\ [](\A i, j \in Items : (i < j /\ epc[j] # "queued") => epc[i] = "done")
    /\ [](IsOrdered(erasData) /\ IsOrdered(sessionData))
    /\ [][\A j \in Items :
            (epc'[j] # epc[j]) => \A i \in Items : i < j => epc'[i] = "done"]_vars

C15_Witness ==
    /\ Len(pushed) = 3
    /\ epc[1] = "done"
    /\ epc[2] = "sendErasData"
    /\ epc[3] = "queued"
    /\ sessionData = <<1>>

\* C16: a failure of an item's processing does not block the queue: an item
\* waits in the queue only behind an item that is still being processed.
C16_FailureDoesNotBlock ==
    \A j \in Items :
        epc[j] = "queued" => \E i \in Items : i < j /\ Processing(i)

\* what of C16 the code does keep: the steps after the failure are skipped
\* and the item is not run again
C16_FailedItemStops ==
    /\ [](\A i \in Items :
            epc[i] = "thrown" =>
                Cardinality({n \in DOMAIN sessionData : sessionData[n] = i}) = 0)
    /\ [][\A i \in Items : epc[i] = "thrown" => epc'[i] = "thrown"]_vars

(***************************************************************************)
(* Claims on the block jobs (SpecJobs)                                     *)
(***************************************************************************)
\* the job of the height returns false at this step
ReturnsFalse(h) == jobResult'[h] = "false" /\ jobResult[h] # "false"
ReturnsTrue(h) == jobResult'[h] = "true" /\ jobResult[h] # "true"
FirstChunkHeights(p) ==
    {chunks[p][1].from + i : i \in 0..(chunks[p][1].n - 1)}

\* C13: a block job that fails all 5 attempts does not keep the other jobs of
\* its chunk from running to completion (its return leaves them and the
\* driver as they were, and a job in flight can always take its next step),
\* and once every job of the chunk has resolved the driver advances: it
\* leaves the await only then, by blockNumber += 10, and can always do so.
C13_FailedJobDoesNotHalt ==
    /\ [][\A p \in Procs : \A h \in jobs[p] :
            ReturnsFalse(h) =>
                /\ ppc'[p] = "await"
                /\ jobs'[p] = jobs[p] \ {h}
                /\ \A g \in jobs'[p] :
                      wpc'[g] = wpc[g] /\ attempts'[g] = attempts[g]]_vars
    /\ [](\A p \in Procs : \A g \in jobs[p] : ENABLED runBlocksWorker(p, g))
    /\ [](\A p \in Procs :
            (ppc[p] = "await" /\ jobs[p] = {}) => ENABLED Advance(p))
    /\ [][\A p \in Procs :
            (ppc[p] = "await" /\ ppc'[p] # "await") =>
                /\ jobs[p] = {}
                /\ ppc'[p] \in {"loop", "requery"}
                /\ blockNumber'[p] = blockNumber[p] + 10]_vars

C13_Witness ==
    \E p \in Procs :
        /\ Len(chunks[p]) = 2
        /\ chunks[p][2].n = 1
        /\ \E h, g \in FirstChunkHeights(p) :
              /\ jobResult[h] = "false"
              /\ jobResult[g] = "true"
              /\ runs[g] = WorkerAttempts

\* C19: runBlocksWorker calls processBlock at most 5 times, makes no call
\* after one that succeeded, returns true exactly after a call that
\* succeeded, and returns false, without throwing, after 5 failed calls.
C19_AtMostFiveAttempts ==
    /\ [](\A h \in JobHeights : runs[h] <= 5)
    /\ [](\A h \in JobHeights : jobResult[h] = "false" => runs[h] = 5)
    /\ [][\A h \in JobHeights :
            /\ ReturnsTrue(h) => (wpc[h] = "resolved" /\ ~lastError[h])
            /\ wpc[h] = "resolved" =>
                  /\ runs'[h] = runs[h]
                  /\ (wpc'[h] # "resolved" => ReturnsTrue(h))
            /\ ReturnsFalse(h) =>
                  /\ runs[h] = 5
                  /\ wpc[h] = "for"
                  /\ \A p \in Procs : h \in jobs[p] => ppc'[p] = "await"
            /\ (runs'[h] # runs[h]) => (wpc[h] = "for" /\ (runs[h] > 0 => lastError[h]))]_vars

C19_Witness ==
    \E h, g \in JobHeights :
        /\ jobResult[h] = "false" /\ runs[h] = 5 /\ sentBlockData[h] = 5
        /\ jobResult[g] = "true" /\ runs[g] = 3

(***************************************************************************)
(* Claims on the era aggregation (SpecEra)                                 *)
(***************************************************************************)
InClipped(v, staker) ==
    \E i \in DOMAIN erasStakers[v].clipped : erasStakers[v].clipped[i] = staker
\* the nominators pushed for the staker of the validator
Emitted(v, staker) ==
    {n \in DOMAIN nominators :
        nominators[n].validator = v /\ nominators[n].account_id = staker}
Occurrences(v, staker) ==
    {i \in DOMAIN erasStakers[v].others : erasStakers[v].others[i] = staker}

\* C17: for every validator and every staker of its unclipped exposure, the
\* Nominator pushed for the staker has is_clipped = TRUE exactly when the
\* staker is absent from the clipped exposure of that validator, and FALSE
\* when it is in both; one Nominator is pushed per staker whose payee is read.
C17_ClippedIffAbsent ==
    /\ \A n \in DOMAIN nominators :
          /\ Occurrences(nominators[n].validator, nominators[n].account_id) # {}
          /\ nominators[n].is_clipped <=>
                ~InClipped(nominators[n].validator, nominators[n].account_id)
    /\ \A v \in Validators : \A staker \in Stakers :
          (IsPushed(v) /\ staker \notin payeeRejects) =>
              Cardinality(Emitted(v, staker)) = Cardinality(Occurrences(v, staker))

C17_Witness ==
    /\ IsPushed("v1") /\ IsPushed("v2")
    /\ \E m, n \in DOMAIN nominators :
          /\ nominators[m].validator = "v1" /\ nominators[m].account_id = "s1"
          /\ nominators[m].is_clipped
          /\ nominators[n].validator = "v2" /\ nominators[n].account_id = "s1"
          /\ ~nominators[n].is_clipped
          /\ InClipped("v2", "s1")

(***************************************************************************)
(* Claims on poison messages (SpecTask)                                    *)
(***************************************************************************)
\* no invocation has committed: every transform so far has failed or is
\* still running
NoTransformSucceeded == \A w \in Workers : outcome[w] # "committed"

\* C21: a poison message cannot retry forever: over all deliveries, one after
\* another or together, processBlock is started at most MAX_ATTEMPTS times,
\* and an invocation that reads attempts > MAX_ATTEMPTS under the row lock
\* aborts at its next step without starting processBlock.
C21_PoisonMessageBounded ==
    /\ [](transforms <= MAX_ATTEMPTS)
    /\ [][\A w \in Workers :
            (pc[w] = "check" /\ taskRecord[w].exists
                /\ taskRecord[w].attempts > MAX_ATTEMPTS /\ pc'[w] # pc[w]) =>
                /\ pc'[w] = "done"
                /\ outcome'[w] = "max_attempts"
                /\ transforms' = transforms
                /\ outputs' = outputs
                /\ task' = task]_vars

C21_Witness ==
    /\ initTask.exists /\ initTask.attempts = 0 /\ initTask.status = NOT_PROCESSED
    /\ transforms = MAX_ATTEMPTS
    /\ NoTransformSucceeded
    /\ task.status = NOT_PROCESSED
    /\ \E w \in Workers :
          pc[w] = "done" /\ outcome[w] = "max_attempts" /\ msg[w] = task.collect_uid

(***************************************************************************)
(* Claims on the steps of one block-job attempt (SpecJobs)                 *)
(***************************************************************************)
\* the attempt of the job of height h is inside processBlock
InProcessBlock(h) ==
    wpc[h] \in {"getBlockHashByHeight", "getInfoToProcessBlock", "sendBlockData",
                "extractExtrinsics"}

\* the heights whose processBlock has resolved: an attempt per height succeeds
\* at most once, as the job returns after it
Succeeded == {h \in JobHeights : wpc[h] = "resolved" \/ jobResult[h] = "true"}

\* this step is the end of extractExtrinsics of height h and the synchronous
\* rest of processBlock
FinishesProcessBlock(h) == wpc[h] = "extractExtrinsics" /\ wpc'[h] = "resolved"

\* C22: in one attempt the block record is published first, then the
\* extrinsics are extracted, then the era-payout signal is enqueued (only for
\* a block with the event), then the counter advances; a failing step skips
\* the later ones, so the counter advances once per successful attempt and
\* never in a failed one.
C22_StepsInOrder ==
    /\ [](counter = Cardinality(Succeeded))
    /\ [][\A h \in JobHeights :
            /\ sentBlockData'[h] # sentBlockData[h] =>
                  /\ wpc[h] = "sendBlockData" /\ wpc'[h] = "extractExtrinsics"
                  /\ sentBlockData'[h] = sentBlockData[h] + 1
                  /\ counter' = counter /\ pushed' = pushed
            /\ wpc'[h] = "extractExtrinsics" /\ wpc[h] # "extractExtrinsics" =>
                  sentBlockData'[h] = sentBlockData[h] + 1
            /\ FinishesProcessBlock(h) =>
                  /\ counter' = counter + 1
                  /\ sentBlockData' = sentBlockData
                  /\ pushed' = IF h \in PayoutBlocks THEN Append(pushed, h) ELSE pushed
            /\ (InProcessBlock(h) /\ wpc'[h] = "sleep") =>
                  /\ lastError'[h]
                  /\ counter' = counter /\ pushed' = pushed
                  /\ sentBlockData' = sentBlockData
            /\ (wpc[h] = "sleep" /\ wpc'[h] # "sleep") =>
                  /\ wpc'[h] = "for"
                  /\ counter' = counter /\ pushed' = pushed
                  /\ sentBlockData' = sentBlockData]_vars
    /\ [][(counter' # counter \/ pushed' # pushed) =>
            \E h \in JobHeights : FinishesProcessBlock(h)]_vars

C22_Witness ==
    /\ \E h \in PayoutBlocks :
          /\ jobResult[h] = "true" /\ runs[h] = 3
          /\ sentBlockData[h] = 2
          /\ pushed = <<h>>
    /\ \E h \in JobHeights \ PayoutBlocks :
          jobResult[h] = "false" /\ sentBlockData[h] >= 1
    /\ counter = 1

(***************************************************************************)
(* Claims on the era-payout signal of one block job (SpecJobs)             *)
(***************************************************************************)
\* the calls of addToQueue made for the block of height h
SignalsOf(h) == {i \in DOMAIN pushed : pushed[i] = h}

\* C26: the job of one height, over all of its attempts, enqueues the
\* era-payout signal of its block at most once, however often its failed
\* attempts have published the block record; only the attempt whose
\* processBlock resolves enqueues it.
C26_SignalAtMostOncePerJob ==
    \A h \in JobHeights :
        /\ Cardinality(SignalsOf(h)) <= 1
        /\ SignalsOf(h) # {} => h \in PayoutBlocks /\ h \in Succeeded

C26_Witness ==
    \E h \in PayoutBlocks :
        /\ h \in JobHeights
        /\ jobResult[h] = "true"
        /\ runs[h] = WorkerAttempts
        /\ sentBlockData[h] = WorkerAttempts
        /\ Cardinality(SignalsOf(h)) = 1

(***************************************************************************)
(* Claims on the two publications of one era-payout item (SpecQueue)       *)
(***************************************************************************)
\* processEraPayout of the item is over: cb was reached or it has thrown
Ended(i) == epc[i] \in {"cb", "done", "thrown"}
InErasData(i) == \E k \in DOMAIN erasData : erasData[k] = i
InSessionData(i) == \E k \in DOMAIN sessionData : sessionData[k] = i

\* C23: the era aggregate and the validators+nominators payload of an item
\* are published as a unit: the processing of an item never ends with the
\* item's record on the era-aggregate topic and none on the
\* validators+nominators topic.
C23_PublishedAsUnit ==
    \A i \in Items : (Ended(i) /\ InErasData(i)) => InSessionData(i)

(***************************************************************************)
(* Claims on failures inside processBlocks (SpecSync)                      *)
(***************************************************************************)
\* C24: whenever the sync lock is held, a processBlocks pass is still
\* running: a checkpoint read, a head query or a guard that throws does not
\* leave the lock held with no pass to release it, so a later call of
\* processBlocks can still acquire it.
C24_LockHeldOnlyByRunningPass ==
    SyncStatus_isLocked => \E p \in Procs : InPass(p)

(***************************************************************************)
(* Claims on trimAndUpdateToFinalized beside processBlocks (SpecTrim)      *)
(***************************************************************************)
\* this step is the store's execution of the trim of caller p
TrimExecutes(p) == ~trimmed[p] /\ trimmed'[p]

\* C25: under every interleaving of trimAndUpdateToFinalized and processBlocks
\* calls, the trim of stored blocks is never executed while a sync pass holds
\* the lock; and a call made while the lock is held returns result false
\* without trimming and without starting a pass.
C25_NoTrimDuringPass ==
    /\ [][\A p \in Procs : TrimExecutes(p) => ~SyncStatus_isLocked]_vars
    /\ [][\A p \in Procs :
            (tpc[p] = "idle" /\ tpc'[p] # "idle" /\ SyncStatus_isLocked) =>
                /\ tpc'[p] = "returned"
                /\ trimResult'[p] = "false"
                /\ trimmed' = trimmed
                /\ syncVars' = syncVars]_vars

\* the second half of C25 alone, which holds
C25_BusyReturnsFalse ==
    /\ [][\A p \in Procs :
            (tpc[p] = "idle" /\ tpc'[p] # "idle" /\ SyncStatus_isLocked) =>
                /\ tpc'[p] = "returned"
                /\ trimResult'[p] = "false"
                /\ trimmed' = trimmed
                /\ syncVars' = syncVars]_vars
    /\ [](\A p \in Procs : trimResult[p] = "false" => ~trimmed[p])

=============================================================================
